---------------------------- MODULE Spec2Model ----------------------------
(***************************************************************************)
(* A model of news_agent.py: the entry normaliser (parse_entry), the       *)
(* geographic classifier, the relevance scorer, the deduplicator, the      *)
(* balanced selector and the run loop of generate_feed.                    *)
(*                                                                         *)
(* Text is modelled by TLA+ strings.  Days are integers: a timestamp is    *)
(* the number of the day it falls on, and (now - date).days is the         *)
(* difference of two day numbers.                                          *)
(***************************************************************************)
EXTENDS Integers, Sequences, FiniteSets, TLC

VARIABLES
    pc,             \* position of the program
    now,            \* datetime.now(), as a day number
    entry,          \* parse_entry: the raw feed entry
    feed_config,    \* parse_entry: the descriptor of the entry's feed
    article,        \* the article parse_entry returned (or None), then classified, scored
    articles,       \* input of deduplicate / balanced_selection; in a run, the last fetch
    unique,         \* deduplicate: its result
    picked_ro,      \* balanced_selection: the romania picks
    picked_eu,      \* balanced_selection: the europe picks
    picked_gl,      \* balanced_selection: the global picks
    final,          \* balanced_selection: its result
    feed_i,         \* generate_feed: index in ALL_FEEDS of the feed fetched next
    all_articles,   \* generate_feed: the collection of the run
    warned,         \* generate_feed: whether the last fetch printed its [WARN] line
    output,         \* generate_feed: format_output's result
    output_file,    \* the content of OUTPUT_FILE on disk, or NoFile
    backup_file     \* the content of BACKUP_FILE on disk, or NoFile

vars == << pc, now, entry, feed_config, article, articles, unique,
           picked_ro, picked_eu, picked_gl, final,
           feed_i, all_articles, warned, output, output_file, backup_file >>

-----------------------------------------------------------------------------
(* Configuration *)

TOTAL_ARTICLES == 9
SLOTS_ROMANIA == 3
SLOTS_EUROPE == 3
SLOTS_GLOBAL == 3
MAX_AGE_DAYS == 14

FEEDS_ROMANIA ==
  <<
    [url |-> "https://www.romania-insider.com/feed", source |-> "Romania Insider", geo |-> "romania"],
    [url |-> "https://www.romaniajournal.ro/feed/", source |-> "Romania Journal", geo |-> "romania"],
    [url |-> "https://www.actmedia.eu/rss/rss.php", source |-> "ACTMedia Romania", geo |-> "romania"],
    [url |-> "https://www.nineoclock.ro/feed/", source |-> "Nine O'Clock", geo |-> "romania"]
  >>

FEEDS_EUROPE ==
  <<
    [url |-> "https://www.traveldailynews.com/feed/", source |-> "Travel Daily News", geo |-> "europe"],
    [url |-> "https://www.eturbonews.com/feed/", source |-> "eTurboNews", geo |-> "global"],
    [url |-> "https://www.hospitalitynet.org/rss/news.html", source |-> "Hospitality Net", geo |-> "europe"],
    [url |-> "https://www.euronews.com/travel/feed", source |-> "Euronews Travel", geo |-> "europe"],
    [url |-> "https://www.touristboard.net/feed/", source |-> "Tourist Board News", geo |-> "europe"],
    [url |-> "https://etc-corporate.org/feed/", source |-> "European Travel Commission", geo |-> "europe"]
  >>

FEEDS_GLOBAL ==
  <<
    [url |-> "https://skift.com/feed/", source |-> "Skift", geo |-> "global"],
    [url |-> "https://www.phocuswire.com/rss", source |-> "PhocusWire", geo |-> "global"],
    [url |-> "https://www.travelweekly.com/rss", source |-> "Travel Weekly", geo |-> "global"],
    [url |-> "https://www.travelandtourworld.com/feed/", source |-> "Travel & Tour World", geo |-> "global"],
    [url |-> "https://www.ttgmedia.com/rss", source |-> "TTG Media", geo |-> "global"],
    [url |-> "https://www.travelmarketreport.com/rss", source |-> "Travel Market Report", geo |-> "global"],
    [url |-> "https://www.breakingtravelnews.com/feed/", source |-> "Breaking Travel News", geo |-> "global"]
  >>

ALL_FEEDS == FEEDS_ROMANIA \o FEEDS_EUROPE \o FEEDS_GLOBAL

GEO_ROMANIA_KEYWORDS ==
  <<
    "romania", "romanian", "bucharest", "bucuresti", "transylvania", "moldova",
    "moldavia", "constanta", "mamaia", "brasov", "sibiu", "cluj", "timisoara", "iasi",
    "maramures", "banat", "dobrogea", "black sea coast", "danube delta", "tulcea",
    "prahova", "bran", "sinaia", "poiana brasov", "vama veche", "bucovina",
    "painted monasteries"
  >>

GEO_EUROPE_KEYWORDS ==
  <<
    "europe", "european", "eu ", " eu,", "eu's", "mediterranean", "balkans", "balkan",
    "spain", "spanish", "france", "french", "italy", "italian", "greece", "greek",
    "portugal", "portuguese", "germany", "german", "austria", "austrian", "switzerland",
    "swiss", "croatia", "croatian", "slovenia", "slovenia", "bulgaria", "bulgarian",
    "serbia", "serbian", "hungary", "hungarian", "turkey", "turkish", "czech", "prague",
    "poland", "polish", "netherlands", "dutch", "belgium", "belgian", "uk ", "britain",
    "british", "london", "scotland", "ireland", "scandinavia", "nordic", "norway",
    "sweden", "denmark", "finland", "barcelona", "paris", "rome", "lisbon", "berlin",
    "vienna", "amsterdam", "dubrovnik", "santorini", "alps", "schengen", "eurozone",
    "ryanair", "easyjet", "eurowings", "european commission", "european parliament",
    "eu tourism", "eu fund", "erasmus", "horizon europe"
  >>

KEYWORDS_HIGH_VALUE ==
  <<
    "destination marketing", "dmo", "destination management", "tourism strategy",
    "tourism board", "national tourism", "wine tourism", "sustainable tourism",
    "slow travel", "overtourism", "tourist tax", "tourism tax", "review management",
    "tripadvisor", "ota management", "travel tech", "digital campaign", "programmatic",
    "feeder market", "source market", "hotel marketing", "hospitality marketing",
    "mice tourism", "conference tourism", "cultural tourism", "heritage tourism",
    "rural tourism", "ai tourism", "artificial intelligence travel", "tourism investment",
    "tourism infrastructure", "eco tourism", "responsible tourism", "culinary tourism",
    "food tourism", "gastro tourism"
  >>

KEYWORDS_MEDIUM_VALUE ==
  <<
    "tourism", "travel industry", "hospitality", "hotel", "resort", "accommodation",
    "destination", "visitor economy", "inbound tourism", "outbound tourism",
    "travel trend", "booking", "airline", "cruise", "tour operator", "travel recovery",
    "tourism growth", "visitor numbers", "travel technology", "digital transformation",
    "influencer", "content marketing", "social media travel"
  >>

CLICKBAIT == << "you won't believe", "shocking", "amazing trick", "top 10 hack" >>

-----------------------------------------------------------------------------
(* Python values and string primitives *)

None == [None |-> TRUE]

\* a path of the disk: no file there, or a file of the given content
NoFile == [exists |-> FALSE, content |-> <<>>]

File(content) == [exists |-> TRUE, content |-> content]

Range(f) == {f[i] : i \in DOMAIN f}

Min[a \in Int, b \in Int] == IF a <= b THEN a ELSE b

Max[a \in Int, b \in Int] == IF a >= b THEN a ELSE b

\* s[i] for a 1-based index i
CharAt(s, i) == SubSeq(s, i, i)

\* s[:n]
Prefix(s, n) == SubSeq(s, 1, Min[n, Len(s)])

\* kw in text
Contains[kw \in STRING, text \in STRING] ==
    \E i \in 1..(Len(text) - Len(kw) + 1) : SubSeq(text, i, i + Len(kw) - 1) = kw

\* the least and the greatest element of a non-empty set of numbers
SetMin(S) == CHOOSE k \in S : \A m \in S : k <= m

SetMax(S) == CHOOSE k \in S : \A m \in S : k >= m

\* c * n
RECURSIVE Rep(_, _)
Rep(c, n) ==
    IF n <= 0 THEN ""
    ELSE LET h == Rep(c, n \div 2)
         IN  IF n % 2 = 1 THEN h \o h \o c ELSE h \o h

LowerChar(c) ==
    CASE c = "A" -> "a" [] c = "B" -> "b" [] c = "C" -> "c" [] c = "D" -> "d"
      [] c = "E" -> "e" [] c = "F" -> "f" [] c = "G" -> "g" [] c = "H" -> "h"
      [] c = "I" -> "i" [] c = "J" -> "j" [] c = "K" -> "k" [] c = "L" -> "l"
      [] c = "M" -> "m" [] c = "N" -> "n" [] c = "O" -> "o" [] c = "P" -> "p"
      [] c = "Q" -> "q" [] c = "R" -> "r" [] c = "S" -> "s" [] c = "T" -> "t"
      [] c = "U" -> "u" [] c = "V" -> "v" [] c = "W" -> "w" [] c = "X" -> "x"
      [] c = "Y" -> "y" [] c = "Z" -> "z" [] OTHER -> c

\* str.lower(): character by character, the string split in halves
lower[s \in STRING] ==
    IF Len(s) = 0 THEN ""
    ELSE IF Len(s) = 1 THEN LowerChar(s)
    ELSE lower[SubSeq(s, 1, Len(s) \div 2)] \o lower[SubSeq(s, Len(s) \div 2 + 1, Len(s))]

\* the characters \s matches
IsSpace(c) == c \in {" ", "\t", "\n"}

\* what re.sub(r"\s+", " ", ...) leaves of the part s of a string whose next
\* character is nxt ("" at the end): a run of whitespace becomes the one space
\* written for its last character
Collapse[s \in STRING, nxt \in STRING] ==
    IF Len(s) = 0 THEN ""
    ELSE IF Len(s) = 1
         THEN IF IsSpace(s)
              THEN IF nxt # "" /\ IsSpace(nxt) THEN "" ELSE " "
              ELSE s
    ELSE Collapse[SubSeq(s, 1, Len(s) \div 2), CharAt(s, Len(s) \div 2 + 1)]
         \o Collapse[SubSeq(s, Len(s) \div 2 + 1, Len(s)), nxt]

\* re.sub(r"\s+", " ", s)
CollapseSpace[s \in STRING] == Collapse[s, ""]

LStrip[s \in STRING] == IF s # "" /\ IsSpace(Head(s)) THEN LStrip[Tail(s)] ELSE s

RStrip[s \in STRING] ==
    IF s # "" /\ IsSpace(CharAt(s, Len(s))) THEN RStrip[SubSeq(s, 1, Len(s) - 1)] ELSE s

\* str.strip()
Strip[s \in STRING] == RStrip[LStrip[s]]

\* the index of the first ">" of s after index i, or 0
FirstGt[s \in STRING, i \in Nat] ==
    LET G == {j \in (i + 1)..Len(s) : CharAt(s, j) = ">"}
    IN  IF G = {} THEN 0 ELSE SetMin(G)

\* a match of <[^>]+> starts at index k
IsTagStart(s, k) == CharAt(s, k) = "<" /\ FirstGt[s, k] >= k + 2

\* the markup tags of s, each replaced by sep: a tag is a match of <[^>]+>, the
\* leftmost first
ReplaceTags[s \in STRING, sep \in STRING] ==
    LET T == {k \in 1..Len(s) : IsTagStart(s, k)}
    IN  IF T = {} THEN s
        ELSE LET k == SetMin(T)
                 j == FirstGt[s, k]
             IN  SubSeq(s, 1, k - 1) \o sep \o ReplaceTags[SubSeq(s, j + 1, Len(s)), sep]

\* re.sub(r"\[\.{3}\]$", "", s)
StripEllipsisTag[s \in STRING] ==
    IF Len(s) >= 5 /\ SubSeq(s, Len(s) - 4, Len(s)) = "[...]"
    THEN SubSeq(s, 1, Len(s) - 5)
    ELSE s

clean_text[text \in STRING] ==
    Strip[StripEllipsisTag[Strip[CollapseSpace[ReplaceTags[text, ""]]]]]

\* BeautifulSoup's get_text(separator=" ") of markup that holds no script, style or
\* iframe element: the text nodes, joined by the separator
clean_html[html \in STRING] == Strip[CollapseSpace[ReplaceTags[html, " "]]]

\* s.rfind(" "): the index of the last space of s, or 0
RFindSpace[s \in STRING] ==
    LET P == {i \in 1..Len(s) : CharAt(s, i) = " "}
    IN  IF P = {} THEN 0 ELSE SetMax(P)

\* s.rsplit(" ", 1)[0]
RSplitHead[s \in STRING] ==
    LET k == RFindSpace[s]
    IN  IF k = 0 THEN s ELSE SubSeq(s, 1, k - 1)

\* hashlib.md5(url.encode()).hexdigest()[:12]: a deterministic function of the link
md5_12(url) == "md5:" \o url

\* the decimal digits of a string, as a number
DigitValue(c) ==
    CASE c = "0" -> 0 [] c = "1" -> 1 [] c = "2" -> 2 [] c = "3" -> 3 [] c = "4" -> 4
      [] c = "5" -> 5 [] c = "6" -> 6 [] c = "7" -> 7 [] c = "8" -> 8 [] c = "9" -> 9

ParseDigits[s \in STRING, acc \in Nat] ==
    IF s = "" THEN acc ELSE ParseDigits[Tail(s), 10 * acc + DigitValue(Head(s))]

\* datetime.isoformat(), datetime.fromisoformat() and strftime("%B %d, %Y") of a day
isoformat(d) == ToString(d)

fromisoformat(s) == ParseDigits[s, 0]

strftime(d) == "day " \o ToString(d)

-----------------------------------------------------------------------------
(* Core functions *)

\* A raw date field of an entry: absent, a struct datetime() rejects, or a struct of
\* the day `day`
NoDate == [kind |-> "none", day |-> 0]

BadDate == [kind |-> "bad", day |-> 0]

DateOn(d) == [kind |-> "ok", day |-> d]

\* the loop over ("published_parsed", "updated_parsed"): the first field that is
\* present and that datetime() accepts, or NoDate
ResolveDate(e) ==
    IF e.published_parsed.kind = "ok" THEN e.published_parsed
    ELSE IF e.updated_parsed.kind = "ok" THEN e.updated_parsed
    ELSE NoDate

\* summary[:217].rsplit(" ", 1)[0] + "..." when the summary is longer than 220
Truncate[summary \in STRING] ==
    IF Len(summary) > 220
    THEN RSplitHead[Prefix(summary, 217)] \o "..."
    ELSE summary

parse_entry(e, cfg, today) ==
    IF e.malformed THEN None
    ELSE
    LET title == clean_text[e.title]
        url == e.link
        summary_raw == IF e.has_summary THEN e.summary ELSE e.description
        cut == Truncate[clean_html[summary_raw]]
        summary == IF cut = "" THEN title ELSE cut
        date_obj == ResolveDate(e)
    IN  IF title = "" \/ Len(title) < 15 THEN None
        ELSE IF url = "" THEN None
        ELSE IF date_obj.kind = "ok" /\ today - date_obj.day > MAX_AGE_DAYS THEN None
        ELSE [ id |-> md5_12(url),
               title |-> title,
               summary |-> summary,
               url |-> url,
               source |-> cfg.source,
               feed_geo |-> cfg.geo,
               geo |-> "",
               date |-> IF date_obj.kind = "ok" THEN strftime(date_obj.day) ELSE "",
               date_obj |-> IF date_obj.kind = "ok" THEN isoformat(date_obj.day) ELSE "",
               score |-> 0 ]

\* sum(1 for kw in keywords if kw in text)
Hits[keywords \in Seq(STRING), text \in STRING] ==
    Cardinality({i \in DOMAIN keywords : Contains[keywords[i], text]})

\* (article["title"] + " " + article["summary"]).lower()
TextOf(a) == lower[a.title \o " " \o a.summary]

\* a classifier that looks for the region keywords before the country keywords
classify_geography_europe_first(a) ==
    LET text == TextOf(a)
    IN  IF Hits[GEO_EUROPE_KEYWORDS, text] >= 1 THEN [a EXCEPT !.geo = "europe"]
        ELSE IF Hits[GEO_ROMANIA_KEYWORDS, text] >= 1 THEN [a EXCEPT !.geo = "romania"]
        ELSE IF a.feed_geo = "romania" THEN [a EXCEPT !.geo = "romania"]
        ELSE IF a.feed_geo = "europe" THEN [a EXCEPT !.geo = "europe"]
        ELSE [a EXCEPT !.geo = "global"]

classify_geography(a) ==
    LET text == TextOf(a)
        romania_hits == Hits[GEO_ROMANIA_KEYWORDS, text]
        europe_hits == Hits[GEO_EUROPE_KEYWORDS, text]
    IN  IF romania_hits >= 1 THEN [a EXCEPT !.geo = "romania"]
        ELSE IF europe_hits >= 1 THEN [a EXCEPT !.geo = "europe"]
        ELSE IF a.feed_geo = "romania" THEN [a EXCEPT !.geo = "romania"]
        ELSE IF a.feed_geo = "europe" THEN [a EXCEPT !.geo = "europe"]
        ELSE [a EXCEPT !.geo = "global"]

\* the recency bonus of an article age days old
RecencyBonus(age) ==
    IF age <= 1 THEN 6
    ELSE IF age <= 3 THEN 4
    ELSE IF age <= 7 THEN 2
    ELSE 0

\* a scorer that does not clamp the score at 0
score_article_unclamped(a, today) ==
    LET text == TextOf(a)
        recency == IF a.date_obj # ""
                   THEN RecencyBonus(today - fromisoformat(a.date_obj))
                   ELSE 0
    IN  [a EXCEPT !.score = 4 * Hits[KEYWORDS_HIGH_VALUE, text]
                            + Hits[KEYWORDS_MEDIUM_VALUE, text]
                            + recency - 5 * Hits[CLICKBAIT, text]]

score_article(a, today) ==
    LET text == TextOf(a)
        high == 4 * Hits[KEYWORDS_HIGH_VALUE, text]
        medium == Hits[KEYWORDS_MEDIUM_VALUE, text]
        recency == IF a.date_obj # ""
                   THEN RecencyBonus(today - fromisoformat(a.date_obj))
                   ELSE 0
        penalty == 5 * Hits[CLICKBAIT, text]
        score == high + medium + recency - penalty
    IN  [a EXCEPT !.score = Max[score, 0]]

IsAlnum(c) ==
    c \in { "a", "b", "c", "d", "e", "f", "g", "h", "i", "j", "k", "l", "m",
            "n", "o", "p", "q", "r", "s", "t", "u", "v", "w", "x", "y", "z",
            "0", "1", "2", "3", "4", "5", "6", "7", "8", "9" }

\* re.sub(r"[^a-z0-9]", "", s)
AlnumOnly[s \in STRING] ==
    IF Len(s) = 0 THEN ""
    ELSE IF Len(s) = 1 THEN (IF IsAlnum(s) THEN s ELSE "")
    ELSE AlnumOnly[SubSeq(s, 1, Len(s) \div 2)]
         \o AlnumOnly[SubSeq(s, Len(s) \div 2 + 1, Len(s))]

\* re.sub(r"[^a-z0-9]", "", a["title"].lower())[:50]
DedupKey(a) == Prefix(AlnumOnly[lower[a.title]], 50)

\* the loop of deduplicate over the articles not yet visited
RECURSIVE DedupLoop(_, _, _)
DedupLoop(rest, seen, kept) ==
    IF Len(rest) = 0 THEN kept
    ELSE LET a == Head(rest)
             key == DedupKey(a)
         IN  IF key \notin seen
             THEN DedupLoop(Tail(rest), seen \cup {key}, Append(kept, a))
             ELSE DedupLoop(Tail(rest), seen, kept)

\* a deduplicator that keeps, of two articles with one key, the one seen last
RECURSIVE deduplicate_last_wins(_)
deduplicate_last_wins(as) ==
    IF Len(as) = 0 THEN <<>>
    ELSE LET a == Head(as)
             later == {DedupKey(Tail(as)[i]) : i \in DOMAIN Tail(as)}
         IN  IF DedupKey(a) \in later
             THEN deduplicate_last_wins(Tail(as))
             ELSE <<a>> \o deduplicate_last_wins(Tail(as))

deduplicate(as) == DedupLoop(as, {}, <<>>)

\* an insertion that puts an element before the elements of equal score
InsertDescUnstable(sorted, a) ==
    LET k == Cardinality({i \in DOMAIN sorted : sorted[i].score > a.score})
    IN  SubSeq(sorted, 1, k) \o <<a>> \o SubSeq(sorted, k + 1, Len(sorted))

\* list.sort(key=score, reverse=True) puts an element behind every element placed
\* before it whose score is not lower: the sort is stable
InsertDesc(sorted, a) ==
    LET k == Cardinality({i \in DOMAIN sorted : sorted[i].score >= a.score})
    IN  SubSeq(sorted, 1, k) \o <<a>> \o SubSeq(sorted, k + 1, Len(sorted))

\* as.sort(key=lambda x: x["score"], reverse=True)
RECURSIVE SortDesc(_)
SortDesc(as) ==
    IF Len(as) = 0 THEN <<>>
    ELSE InsertDesc(SortDesc(SubSeq(as, 1, Len(as) - 1)), as[Len(as)])

\* [a for a in as if a["geo"] == geo]
OfGeo(as, geo) == SelectSeq(as, LAMBDA a : a.geo = geo)

\* a pool that is left in input order
OverflowPoolUnsorted(as, used_ids) == SelectSeq(as, LAMBDA a : a.id \notin used_ids)

\* the articles whose id is not used, sorted by score descending
OverflowPool(as, used_ids) == SortDesc(SelectSeq(as, LAMBDA a : a.id \notin used_ids))

\* eu_overflow + gl_overflow + ro_overflow
OverflowOrdered(overflow_pool) ==
    OfGeo(overflow_pool, "europe") \o OfGeo(overflow_pool, "global")
        \o OfGeo(overflow_pool, "romania")

\* the loop that builds final, from index i (1-based) on
RECURSIVE InterleaveFrom(_, _, _, _)
InterleaveFrom(ro, eu, gl, i) ==
    IF i > Max[Len(ro), Max[Len(eu), Len(gl)]] THEN <<>>
    ELSE (IF i <= Len(ro) THEN <<ro[i]>> ELSE <<>>)
         \o (IF i <= Len(eu) THEN <<eu[i]>> ELSE <<>>)
         \o (IF i <= Len(gl) THEN <<gl[i]>> ELSE <<>>)
         \o InterleaveFrom(ro, eu, gl, i + 1)

\* a combination that emits the picks bucket after bucket
Concatenate(ro, eu, gl) == ro \o eu \o gl

Interleave(ro, eu, gl) == InterleaveFrom(ro, eu, gl, 1)

balanced_selection(as) ==
    LET romania == SortDesc(OfGeo(as, "romania"))
        europe == SortDesc(OfGeo(as, "europe"))
        global_ == SortDesc(OfGeo(as, "global"))
        ro0 == Prefix(romania, SLOTS_ROMANIA)
        eu0 == Prefix(europe, SLOTS_EUROPE)
        gl0 == Prefix(global_, SLOTS_GLOBAL)
        total_picked == Len(ro0) + Len(eu0) + Len(gl0)
        remaining_needed == TOTAL_ARTICLES - total_picked
        used_ids == {a.id : a \in Range(ro0 \o eu0 \o gl0)}
        overflow_ordered == OverflowOrdered(OverflowPool(as, used_ids))
        extra == IF remaining_needed > 0
                 THEN Prefix(overflow_ordered, remaining_needed)
                 ELSE <<>>
        ro == ro0 \o OfGeo(extra, "romania")
        eu == eu0 \o OfGeo(extra, "europe")
        gl == gl0 \o OfGeo(extra, "global")
    IN  [ picked_ro |-> ro, picked_eu |-> eu, picked_gl |-> gl,
          final |-> Prefix(Interleave(ro, eu, gl), TOTAL_ARTICLES) ]

\* geo_labels.get(a["geo"], "Travel News")
CategoryOf(geo) ==
    CASE geo = "romania" -> "Romania"
      [] geo = "europe" -> "European Tourism"
      [] geo = "global" -> "Global Travel"
      [] OTHER -> "Travel News"

format_output(as) ==
    [i \in DOMAIN as |->
        [ title |-> as[i].title, summary |-> as[i].summary, url |-> as[i].url,
          source |-> as[i].source, category |-> CategoryOf(as[i].geo),
          date |-> as[i].date ]]

\* What the network answers to requests.get and feedparser.parse: the request or
\* the parse raises (timeout, connection error), or the feed's entries, none for
\* an unparseable document
Raises == [raises |-> TRUE, entries |-> <<>>]

Answers(entries) == [raises |-> FALSE, entries |-> entries]

\* parse_entry over feed.entries[:25], the accepted ones
ParsedEntries(entries, cfg, today) ==
    LET first == Prefix(entries, 25)
        parsed == [i \in DOMAIN first |-> parse_entry(first[i], cfg, today)]
    IN  SelectSeq(parsed, LAMBDA a : a # None)

\* a fetch without the try/except: the exception of the request leaves fetch_feed
fetch_feed_uncaught(resp, cfg, today) ==
    IF resp.raises
    THEN [raised |-> TRUE, warned |-> FALSE, articles |-> <<>>]
    ELSE [raised |-> FALSE, warned |-> FALSE,
          articles |-> ParsedEntries(resp.entries, cfg, today)]

\* raised: an exception leaves fetch_feed; warned: the [WARN] line is printed
fetch_feed(resp, cfg, today) ==
    IF resp.raises
    THEN [raised |-> FALSE, warned |-> TRUE, articles |-> <<>>]
    ELSE [raised |-> FALSE, warned |-> FALSE,
          articles |-> ParsedEntries(resp.entries, cfg, today)]

-----------------------------------------------------------------------------
(* The entry normaliser, the classifier and the scorer, applied to one entry *)

Today == 100

MaxWords == 2

WordLens == {2, 108, 110, 216, 217, 218, 230}

Link == "https://example.com/a"

\* the words of the given lengths, separated by single spaces
RECURSIVE Join(_)
Join(ws) ==
    IF Len(ws) = 0 THEN ""
    ELSE IF Len(ws) = 1 THEN Rep("w", ws[1])
    ELSE Rep("w", ws[1]) \o " " \o Join(Tail(ws))

WordySummaries ==
    {Join(ws) : ws \in UNION {[1..n -> WordLens] : n \in 0..MaxWords}}

Entry(title, link, has_summary, summary, description, published, updated) ==
    [ title |-> title, link |-> link, has_summary |-> has_summary,
      summary |-> summary, description |-> description,
      published_parsed |-> published, updated_parsed |-> updated,
      malformed |-> FALSE ]

\* an entry of unexpected shape: reading it raises
MalformedEntry ==
    [Entry("", "", FALSE, "", "", NoDate, NoDate) EXCEPT !.malformed = TRUE]

ParseTitles ==
    { "Bucharest hotel boom continues",
      "  <b>Sibiu</b>   festival\tguide  ",
      "Too short" }

ParseDates ==
    {<<p, u>> : p \in {NoDate, BadDate, DateOn(Today), DateOn(Today - MAX_AGE_DAYS),
                       DateOn(Today - MAX_AGE_DAYS - 1)},
                u \in {NoDate, DateOn(Today - 2), DateOn(Today - MAX_AGE_DAYS - 6)}}

ParseEntries ==
    {Entry(t, l, TRUE, sm, "", d[1], d[2]) :
        t \in ParseTitles, l \in {"", Link}, sm \in WordySummaries, d \in ParseDates}
    \cup
    {Entry(t, Link, FALSE, "", ds, NoDate, NoDate) :
        t \in ParseTitles, ds \in {"", "A <i>short</i>\n description of the piece"}}
    \cup {MalformedEntry}

ArticleTitles ==
    { "Bucharest hotel boom continues",
      "European wine tourism grows fast",
      "Romania joins European rail pact",
      "Brandenburg airport reopens today",
      "Shocking cruise prices in Asia",
      "You won't believe this amazing trick",
      "Airline traffic rebounds across the EU",
      "Overtourism in Asia grows [...]",
      "DMO launches Sustainable Tourism plan",
      "Markets rally on strong earnings" }

ArticleSummaries ==
    { "",
      "Tourism board backs new resort and hotel marketing push",
      "Shocking top 10 hack for booking a cruise",
      "Analysts expect more of the same" }

ArticleAges == {-1, 0, 1, 2, 3, 4, 7, 8, MAX_AGE_DAYS}

ArticleDates ==
    {<<p, NoDate>> : p \in {NoDate, BadDate} \cup {DateOn(Today - a) : a \in ArticleAges}}
    \cup {<<BadDate, DateOn(Today - 5)>>}

ArticleEntries ==
    {Entry(t, Link, TRUE, sm, "", d[1], d[2]) :
        t \in ArticleTitles, sm \in ArticleSummaries, d \in ArticleDates}

\* one feed of each hint: Romania Insider, Travel Daily News, eTurboNews
ArticleFeeds == {ALL_FEEDS[1], ALL_FEEDS[5], ALL_FEEDS[6]}

\* the variables a specification does not use stay at these values
IdleEntry == entry = None /\ feed_config = None /\ article = None

IdleList == articles = <<>> /\ unique = <<>>

IdleSelection ==
    picked_ro = <<>> /\ picked_eu = <<>> /\ picked_gl = <<>> /\ final = <<>>

IdleRun ==
    /\ feed_i = 0 /\ all_articles = <<>> /\ warned = FALSE /\ output = <<>>
    /\ output_file = NoFile /\ backup_file = NoFile

entryVars == << entry, feed_config, article >>

selectionVars == << picked_ro, picked_eu, picked_gl, final >>

runVars == << feed_i, all_articles, warned, output, output_file, backup_file >>

InitParse ==
    /\ pc = "parse"
    /\ now = Today
    /\ entry \in ParseEntries
    /\ feed_config = ALL_FEEDS[1]
    /\ article = None
    /\ IdleList /\ IdleSelection /\ IdleRun

InitArticle ==
    /\ pc = "parse"
    /\ now = Today
    /\ entry \in ArticleEntries
    /\ feed_config \in ArticleFeeds
    /\ article = None
    /\ IdleList /\ IdleSelection /\ IdleRun

ParseEntry ==
    /\ pc = "parse"
    /\ article' = parse_entry(entry, feed_config, now)
    /\ pc' = IF article' = None THEN "rejected" ELSE "parsed"
    /\ UNCHANGED << now, entry, feed_config, articles, unique, selectionVars, runVars >>

ClassifyGeography ==
    /\ pc = "parsed"
    /\ article' = classify_geography(article)
    /\ pc' = "classified"
    /\ UNCHANGED << now, entry, feed_config, articles, unique, selectionVars, runVars >>

ScoreArticle ==
    /\ pc = "classified"
    /\ article' = score_article(article, now)
    /\ pc' = "scored"
    /\ UNCHANGED << now, entry, feed_config, articles, unique, selectionVars, runVars >>

NextParse == ParseEntry

SpecParse == InitParse /\ [][NextParse]_vars

NextArticle == ParseEntry \/ ClassifyGeography \/ ScoreArticle

SpecArticle == InitArticle /\ [][NextArticle]_vars

-----------------------------------------------------------------------------
(* The deduplicator, applied to a scored collection *)

MaxDedup == 3

DedupTitles ==
    { "Hello World Tourism",
      "hello, world tourism!",
      Rep("x", 50) \o " alpha",
      Rep("X", 50) \o " beta",
      Rep("x", 49) \o "a" }

DedupArticles == [title : DedupTitles, score : {1, 8}]

InitDedup ==
    /\ pc = "dedup"
    /\ now = Today
    /\ articles \in UNION {[1..n -> DedupArticles] : n \in 0..MaxDedup}
    /\ unique = <<>>
    /\ IdleEntry /\ IdleSelection /\ IdleRun

Deduplicate ==
    /\ pc = "dedup"
    /\ unique' = deduplicate(articles)
    /\ pc' = "deduped"
    /\ UNCHANGED << now, entryVars, articles, selectionVars, runVars >>

NextDedup == Deduplicate

SpecDedup == InitDedup /\ [][NextDedup]_vars

-----------------------------------------------------------------------------
(* The balanced selector, applied to a deduplicated collection *)

MaxBucket == 5

Geos == <<"romania", "europe", "global">>

ScorePatterns == {"asc", "desc", "zig"}

\* the score of the k-th of the n articles of a bucket
ScoreAt(pat, k, n) ==
    CASE pat = "asc" -> k
      [] pat = "desc" -> n - k
      [] pat = "zig" -> k % 2

\* n articles of one geography, in input order; g is the index of the geography
\* in Geos.  The title and the id are numbers: distinct titles stand for distinct
\* dedup keys, equal ids for equal links
BucketOf(g, n, pat) ==
    [k \in 1..n |-> [ id |-> MaxBucket * 4 * g + k, title |-> MaxBucket * 4 * g + k,
                      geo |-> Geos[g], score |-> ScoreAt(pat, k, n) ]]

\* the three buckets, one after the other, starting with the geography first
Blocks(first, n, pat) ==
    LET g1 == first
        g2 == (first % 3) + 1
        g3 == ((first + 1) % 3) + 1
    IN  BucketOf(g1, n[g1], pat) \o BucketOf(g2, n[g2], pat) \o BucketOf(g3, n[g3], pat)

\* the last article carries the link, and so the id, of the d-th (d = 0: of no other)
WithSharedLink(as, d) ==
    IF d = 0 \/ d >= Len(as) THEN as
    ELSE [as EXCEPT ![Len(as)].id = as[d].id]

\* section 8's scenario: romania scored 10, 8, 5, 2; europe 9, 7; ten global
\* articles scored 20 downwards
Scored(g, scores) ==
    [k \in DOMAIN scores |-> [ id |-> MaxBucket * 4 * g + k, title |-> MaxBucket * 4 * g + k,
                               geo |-> Geos[g], score |-> scores[k] ]]

Scenario ==
    Scored(1, <<10, 8, 5, 2>>) \o Scored(2, <<9, 7>>)
        \o Scored(3, <<20, 19, 18, 17, 16, 15, 14, 13, 12, 11>>)

SelectionInputs ==
    { WithSharedLink(Blocks(first, n, pat), d) :
        first \in 1..3, n \in [1..3 -> 0..MaxBucket], pat \in ScorePatterns,
        d \in 0..(3 * MaxBucket) }
    \cup {Scenario}

InitSelection ==
    /\ pc = "select"
    /\ now = Today
    /\ articles \in SelectionInputs
    /\ unique = <<>>
    /\ IdleEntry /\ IdleSelection /\ IdleRun

BalancedSelection ==
    /\ pc = "select"
    /\ LET r == balanced_selection(articles)
       IN  /\ picked_ro' = r.picked_ro
           /\ picked_eu' = r.picked_eu
           /\ picked_gl' = r.picked_gl
           /\ final' = r.final
    /\ pc' = "selected"
    /\ UNCHANGED << now, entryVars, articles, unique, runVars >>

NextSelection == BalancedSelection

SpecSelection == InitSelection /\ [][NextSelection]_vars

-----------------------------------------------------------------------------
(* A run of generate_feed *)

MaxRunArticles == 1

\* an entry parse_entry accepts: markup in the title, no summary, a date struct
\* datetime() rejects
RunEntry ==
    Entry("<b>Airline</b> adds routes", Link, TRUE, "", "", BadDate, NoDate)

RunEntryShort == Entry("Too short", Link, TRUE, "", "", NoDate, NoDate)

\* what a request may give: an exception (timeout, connection error), a response
\* feedparser finds no entry in, or a feed of a malformed, an accepted and a
\* rejected entry
RunResponses ==
    { Raises,
      Answers(<<>>),
      Answers(<<MalformedEntry, RunEntry, RunEntryShort>>) }

PreviousOutput ==
    << [ title |-> "Yesterday's lead story", summary |-> "Yesterday's lead story",
         url |-> Link, source |-> "Skift", category |-> "Global Travel", date |-> "" ] >>

InitRun ==
    /\ pc = "fetch"
    /\ now = Today
    /\ feed_i = 1
    /\ all_articles = <<>>
    /\ articles = <<>>
    /\ warned = FALSE
    /\ output = <<>>
    /\ output_file \in {NoFile, File(PreviousOutput)}
    /\ backup_file = NoFile
    /\ unique = <<>>
    /\ IdleEntry /\ IdleSelection

\* one turn of the loop over ALL_FEEDS; an exception that leaves fetch_feed ends
\* the run
FetchFeed ==
    /\ pc = "fetch"
    /\ feed_i <= Len(ALL_FEEDS)
    /\ \E resp \in RunResponses :
         \E r \in {fetch_feed(resp, ALL_FEEDS[feed_i], now)} :
             /\ Len(all_articles) + Len(r.articles) <= MaxRunArticles
             /\ IF r.raised
                THEN /\ pc' = "aborted"
                     /\ UNCHANGED << feed_i, all_articles, articles, warned >>
                ELSE /\ articles' = r.articles
                     /\ all_articles' = all_articles \o r.articles
                     /\ warned' = r.warned
                     /\ feed_i' = feed_i + 1
                     /\ pc' = IF feed_i = Len(ALL_FEEDS) THEN "classify" ELSE "fetch"
    /\ UNCHANGED << now, entryVars, unique, selectionVars, output, output_file,
                    backup_file >>

RunClassify ==
    /\ pc = "classify"
    /\ all_articles' = [i \in DOMAIN all_articles |-> classify_geography(all_articles[i])]
    /\ pc' = "score"
    /\ UNCHANGED << now, entryVars, articles, unique, selectionVars, feed_i, warned,
                    output, output_file, backup_file >>

RunScore ==
    /\ pc = "score"
    /\ all_articles' = [i \in DOMAIN all_articles |-> score_article(all_articles[i], now)]
    /\ pc' = "dedup_all"
    /\ UNCHANGED << now, entryVars, articles, unique, selectionVars, feed_i, warned,
                    output, output_file, backup_file >>

RunDeduplicate ==
    /\ pc = "dedup_all"
    /\ all_articles' = deduplicate(all_articles)
    /\ pc' = "select_all"
    /\ UNCHANGED << now, entryVars, articles, unique, selectionVars, feed_i, warned,
                    output, output_file, backup_file >>

RunSelect ==
    /\ pc = "select_all"
    /\ LET r == balanced_selection(all_articles)
       IN  /\ picked_ro' = r.picked_ro
           /\ picked_eu' = r.picked_eu
           /\ picked_gl' = r.picked_gl
           /\ final' = r.final
    /\ pc' = "format"
    /\ UNCHANGED << now, entryVars, articles, unique, runVars >>

RunFormat ==
    /\ pc = "format"
    /\ output' = format_output(final)
    /\ pc' = "backup"
    /\ UNCHANGED << now, entryVars, articles, unique, selectionVars, feed_i,
                    all_articles, warned, output_file, backup_file >>

\* OUTPUT_FILE.rename(BACKUP_FILE) when the file exists; a rename that raises is
\* passed over
RunBackup ==
    /\ pc = "backup"
    /\ \/ /\ output_file.exists
          /\ backup_file' = output_file
          /\ output_file' = NoFile
       \/ UNCHANGED << output_file, backup_file >>
    /\ pc' = "write"
    /\ UNCHANGED << now, entryVars, articles, unique, selectionVars, feed_i,
                    all_articles, warned, output >>

\* open(OUTPUT_FILE, "w") and json.dump
RunWrite ==
    /\ pc = "write"
    /\ output_file' = File(output)
    /\ pc' = "done"
    /\ UNCHANGED << now, entryVars, articles, unique, selectionVars, feed_i,
                    all_articles, warned, output, backup_file >>

NextRun ==
    \/ FetchFeed
    \/ RunClassify
    \/ RunScore
    \/ RunDeduplicate
    \/ RunSelect
    \/ RunFormat
    \/ RunBackup
    \/ RunWrite

SpecRun == InitRun /\ [][NextRun]_vars

\* generate_feed is one thread of straight-line code and every request is bounded
\* by TIMEOUT: a step that can be taken is taken
FairRun == SpecRun /\ WF_vars(NextRun)

-----------------------------------------------------------------------------
(* Properties of the classifier, the scorer and the normaliser *)

\* the text the classifier and the scorer read, from the entry's own fields
EntryText(a) == lower[a.title \o " " \o a.summary]

HasKeyword(keywords, text) == \E kw \in Range(keywords) : Contains[kw, text]

Classified == pc \in {"classified", "scored"}

Cleaned(e) == clean_html[IF e.has_summary THEN e.summary ELSE e.description]

\* C7: a summary built from cleaned text longer than 220 characters is at most 220
\* characters long, ends with "..." and the text before the marker stops at a
\* whitespace boundary of the source text, never inside a word.
C7_TruncationSafe ==
    (pc = "parsed" /\ Len(Cleaned(entry)) > 220) =>
        LET c == Cleaned(entry)
            sm == article.summary
            n == Len(sm) - 3
        IN  /\ Len(sm) <= 220
            /\ n >= 0
            /\ SubSeq(sm, n + 1, n + 3) = "..."
            /\ SubSeq(sm, 1, n) = SubSeq(c, 1, n)
            /\ CharAt(c, n + 1) = " "

\* the number of distinct keywords of the list that the text contains
Distinct(keywords, text) == Cardinality({kw \in Range(keywords) : Contains[kw, text]})

\* the recency bonus of the entry: by the age of its resolved timestamp, 0 without
EntryRecency(e, today) ==
    LET d == ResolveDate(e)
    IN  IF d.kind # "ok" THEN 0
        ELSE IF today - d.day <= 1 THEN 6
        ELSE IF today - d.day <= 3 THEN 4
        ELSE IF today - d.day <= 7 THEN 2
        ELSE 0

RawScore(a, e, today) ==
    4 * Distinct(KEYWORDS_HIGH_VALUE, EntryText(a))
    + Distinct(KEYWORDS_MEDIUM_VALUE, EntryText(a))
    + EntryRecency(e, today)
    - 5 * Distinct(CLICKBAIT, EntryText(a))

\* C9: the score is max(0, 4*H + M + R - 5*C), so it is never negative.
C9_ScoreFormula ==
    pc = "scored" =>
        /\ article.score >= 0
        /\ article.score = Max[0, RawScore(article, entry, now)]
        /\ (article.title = "European wine tourism grows fast"
              /\ article.summary = article.title
                => article.score = 5 + EntryRecency(entry, now))

\* only penalty phrases weigh in and the score is floored at 0
C9_Witness ==
    /\ pc = "scored"
    /\ RawScore(article, entry, now) < 0
    /\ Distinct(CLICKBAIT, EntryText(article)) = 2
    /\ article.score = 0

-----------------------------------------------------------------------------
(* Properties of the deduplicator *)

\* the indices of the input whose key no earlier article has
FirstOfKey ==
    LET key == [i \in DOMAIN articles |-> DedupKey(articles[i])]
    IN  {i \in DOMAIN articles : \A j \in 1..(i - 1) : key[j] # key[i]}

\* the r-th least element of a set of numbers
Nth(S, r) == CHOOSE i \in S : Cardinality({j \in S : j <= i}) = r

\* C5: the output holds, in input order, exactly the first article of every dedup
\* key, whatever the scores; titles that differ only in case or punctuation, or
\* only after their 50th alphanumeric character, have one key.
C5_FirstWins ==
    pc = "deduped" =>
        /\ LET first == FirstOfKey
           IN  /\ Len(unique) = Cardinality(first)
               /\ \A r \in DOMAIN unique : unique[r] = articles[Nth(first, r)]
        /\ \A i \in DOMAIN articles :
             (i >= 2 /\ articles[1].title = "Hello World Tourism"
                     /\ articles[i].title = "hello, world tourism!")
               => \A r \in DOMAIN unique : unique[r].title # "hello, world tourism!"
        /\ (Len(articles) = 2 /\ articles[1].title = Rep("x", 50) \o " alpha"
                              /\ articles[2].title = Rep("X", 50) \o " beta")
               => unique = <<articles[1]>>
        /\ (Len(articles) = 2 /\ articles[1].title = Rep("x", 50) \o " alpha"
                              /\ articles[2].title = Rep("x", 49) \o "a")
               => unique = articles

\* A before B with one key and B scored higher: A alone is kept
C5_Witness ==
    /\ pc = "deduped"
    /\ Len(articles) = 2
    /\ articles[1].title # articles[2].title
    /\ DedupKey(articles[1]) = DedupKey(articles[2])
    /\ articles[2].score > articles[1].score
    /\ unique = <<articles[1]>>

-----------------------------------------------------------------------------
(* Properties of the balanced selector *)

Selected == pc = "selected"

Picked(g) ==
    CASE g = "romania" -> picked_ro
      [] g = "europe" -> picked_eu
      [] g = "global" -> picked_gl

GeoSet == {"romania", "europe", "global"}

\* the input positions of the articles of a geography
Pos(g) == {p \in DOMAIN articles : articles[p].geo = g}

\* position q comes before position p in score-descending stable order
Beats(q, p) ==
    \/ articles[q].score > articles[p].score
    \/ articles[q].score = articles[p].score /\ q < p

\* the rank of position p in its bucket, in score-descending stable order
Rank(p) == 1 + Cardinality({q \in Pos(articles[p].geo) : Beats(q, p)})

\* the article of rank r of the bucket of g
Ranked(g, r) == articles[CHOOSE p \in Pos(g) : Rank(p) = r]

\* the bucket's first n articles in score-descending stable order
Top(g, n) == [r \in 1..n |-> Ranked(g, r)]

TotalPicked == Len(picked_ro) + Len(picked_eu) + Len(picked_gl)

CountOf(seq, g) == Cardinality({k \in DOMAIN seq : seq[k].geo = g})

\* C1: the selection returns exactly min(TOTAL_ARTICLES, number of articles)
\* articles, for every deduplicated collection, whatever the ids.
C1_ExactCount ==
    Selected => Len(final) = Min[TOTAL_ARTICLES, Len(articles)]

\* each initial pick takes min(slots, size of the bucket)
InitialTotal ==
    Min[SLOTS_ROMANIA, Cardinality(Pos("romania"))]
    + Min[SLOTS_EUROPE, Cardinality(Pos("europe"))]
    + Min[SLOTS_GLOBAL, Cardinality(Pos("global"))]

AllSelected(g) == \A p \in Pos(g) : articles[p] \in Range(Picked(g))

\* C2: when the initial picks total fewer than 9, an extra global article is taken
\* only if every europe article is selected, an extra romania article only if every
\* europe and every global article is selected; with 1 romania article and at least
\* 4 in each other bucket, europe is filled before global.
C2_OverflowPriority ==
    (Selected /\ InitialTotal < TOTAL_ARTICLES) =>
        /\ Len(picked_gl) > SLOTS_GLOBAL => AllSelected("europe")
        /\ Len(picked_ro) > SLOTS_ROMANIA => AllSelected("europe") /\ AllSelected("global")
        /\ ( /\ Cardinality(Pos("romania")) = 1
             /\ Cardinality(Pos("europe")) >= 4
             /\ Cardinality(Pos("global")) >= 4 )
           => /\ Len(picked_eu) = Min[SLOTS_EUROPE + 2, Cardinality(Pos("europe"))]
              /\ Len(picked_gl) = TOTAL_ARTICLES - 1 - Len(picked_eu)

\* C3: when every bucket holds at least 3 articles, the selection holds exactly the
\* 3 first articles of each bucket in score-descending stable order.
C3_ExactSplit ==
    (Selected /\ \A g \in GeoSet : Cardinality(Pos(g)) >= 3) =>
        /\ picked_ro = Top("romania", SLOTS_ROMANIA)
        /\ picked_eu = Top("europe", SLOTS_EUROPE)
        /\ picked_gl = Top("global", SLOTS_GLOBAL)
        /\ \A g \in GeoSet : CountOf(final, g) = 3
        /\ Len(final) = TOTAL_ARTICLES

\* abundant buckets with ties of score: the picks follow input order among equals
C3_Witness ==
    /\ Selected
    /\ \A g \in GeoSet : Cardinality(Pos(g)) >= 4
    /\ \E p, q \in Pos("europe") : p < q /\ articles[p].score = articles[q].score
                                        /\ Rank(p) <= 3 /\ Rank(q) > 3
    /\ \E p, q \in Pos("europe") : p < q /\ Rank(q) < Rank(p)
    /\ Len(final) = TOTAL_ARTICLES

\* the place in the output of the i-th pick of the bucket number o (romania 1,
\* europe 2, global 3): after the earlier rounds and the earlier buckets of its round
PlaceOf(o, i) ==
    Cardinality({x \in (1..3) \X (1..TotalPicked) :
                    /\ x[2] <= Len(Picked(Geos[x[1]]))
                    /\ (x[2] < i \/ (x[2] = i /\ x[1] <= o))})

GeoScore(seq) == [k \in DOMAIN seq |-> <<seq[k].geo, seq[k].score>>]

\* C4: the output is the round-robin interleaving of the romania, europe and global
\* picks, each pick emitted once; 3/3/3 gives R,E,G,R,E,G,R,E,G and section 8's
\* scenario gives R10,E9,G20,R8,E7,G19,R5,G18,G17.
C4_Interleave ==
    Selected =>
        /\ Len(final) = TotalPicked
        /\ \A o \in 1..3 : \A i \in DOMAIN Picked(Geos[o]) :
               final[PlaceOf(o, i)] = Picked(Geos[o])[i]
        /\ (Len(picked_ro) = 3 /\ Len(picked_eu) = 3 /\ Len(picked_gl) = 3)
             => final = << picked_ro[1], picked_eu[1], picked_gl[1],
                           picked_ro[2], picked_eu[2], picked_gl[2],
                           picked_ro[3], picked_eu[3], picked_gl[3] >>
        /\ articles = Scenario
             => GeoScore(final) =
                  << <<"romania", 10>>, <<"europe", 9>>, <<"global", 20>>,
                     <<"romania", 8>>, <<"europe", 7>>, <<"global", 19>>,
                     <<"romania", 5>>, <<"global", 18>>, <<"global", 17>> >>

\* section 8's scenario has been selected: europe is exhausted after two rounds
C4_Witness ==
    /\ Selected
    /\ articles = Scenario
    /\ Len(picked_eu) = 2 /\ Len(picked_gl) = 4
    /\ Len(final) = TOTAL_ARTICLES
    /\ final[8].geo = "global"

DistinctIds ==
    \A p, q \in DOMAIN articles : p # q => articles[p].id # articles[q].id

\* C10: with pairwise-distinct ids each bucket's picks, overflow additions included,
\* are a prefix of the bucket's score-descending stable order: no unselected article
\* outscores a selected one of its geography, none is selected twice, and the picks
\* total at most 9, so the final truncation removes nothing.
C10_PrefixOfOrder ==
    (Selected /\ DistinctIds) =>
        /\ \A g \in GeoSet :
              /\ Len(Picked(g)) <= Cardinality(Pos(g))
              /\ Picked(g) = Top(g, Len(Picked(g)))
              /\ \A p \in Pos(g) : articles[p] \notin Range(Picked(g))
                    => \A k \in DOMAIN Picked(g) : articles[p].score <= Picked(g)[k].score
              /\ \A k, m \in DOMAIN Picked(g) : k # m => Picked(g)[k].id # Picked(g)[m].id
        /\ TotalPicked <= TOTAL_ARTICLES
        /\ Len(final) = TotalPicked

\* the overflow step has added europe articles behind the initial picks, and an
\* article it left out scores no higher
C10_Witness ==
    /\ Selected /\ DistinctIds
    /\ Len(picked_eu) > SLOTS_EUROPE
    /\ Cardinality(Pos("europe")) > Len(picked_eu)
    /\ \E p, q \in Pos("europe") : p < q /\ Rank(q) < Rank(p)
    /\ TotalPicked = TOTAL_ARTICLES

-----------------------------------------------------------------------------
(* Properties of the run *)

\* a turn of the loop moves to the next feed of ALL_FEEDS, keeps what the earlier
\* feeds gave and adds what this feed gave, which is nothing when it failed
FetchStepIsolated ==
    pc = "fetch" =>
        /\ feed_i \in 1..Len(ALL_FEEDS)
        /\ feed_i' = feed_i + 1
        /\ pc' = IF feed_i = Len(ALL_FEEDS) THEN "classify" ELSE "fetch"
        /\ all_articles' = all_articles \o articles'
        /\ warned' => articles' = <<>>
        /\ \A k \in DOMAIN articles' : articles'[k].source = ALL_FEEDS[feed_i].source

\* C8: whatever fetches fail, whatever entries are rejected and whether or not the
\* backup rename fails, the run takes every feed in configuration order, a failed
\* feed adds nothing and leaves the other feeds' articles alone, and the run
\* reaches the step that writes the output file.
C8_RunReachesWrite ==
    /\ [][FetchStepIsolated]_vars
    /\ <>(pc = "write")

\* the step that writes is reached after the first feed gave an article, the last
\* feed failed, and the rename of the previous file failed
C8_Witness ==
    /\ pc = "write"
    /\ warned
    /\ feed_i = Len(ALL_FEEDS) + 1
    /\ Len(final) = 1
    /\ final[1].source = ALL_FEEDS[1].source
    /\ output_file = File(PreviousOutput)

=============================================================================
